---- MODULE Spec2Model ----
(***************************************************************************)
(* Model of STARCCM+_BatchScript.py: template instantiation                *)
(* (process_required_templates, process_custom_templates), the batch       *)
(* executor (process_sim_command) and their sequencing in MainProgram.     *)
(*                                                                         *)
(* Text is a sequence of symbols.  A symbol is a chunk of characters that  *)
(* the model never splits ("Case", "Name", "0" .. "9", "/", ".sim", ...),  *)
(* so str.replace is modelled as Python performs it, over this alphabet.   *)
(***************************************************************************)
EXTENDS Integers, Sequences, FiniteSets, TLC

(* ------------------------------ bounds -------------------------------- *)
\* longest placeholder sequence of the whole-program specification
MaxLen == 2
\* longest placeholder sequence of the instantiation specification
MaxRows == 10
\* largest pool size (max_threads)
MaxThreads == 2
\* most .sim and most .java paths handed to process_sim_command in the executor's specification
MaxJobs == 3
\* most jobs of the fair executor specification
MaxDrainJobs == 2

(* --------------------------- text helpers ----------------------------- *)
DigitChars == <<"0", "1", "2", "3", "4", "5", "6", "7", "8", "9">>

Min(S) == CHOOSE x \in S : \A y \in S : x <= y

RECURSIVE Str(_)
\* str(n) of a non-negative int: its decimal digits, most significant first
Str(n) ==
    IF n < 10 THEN <<DigitChars[n + 1]>>
    ELSE Str(n \div 10) \o <<DigitChars[(n % 10) + 1]>>

\* the format spec without its zero fill
FormatUnpadded(n, w) == Str(n)

\* the format spec "0{w}d": str(n) left-padded with "0" to at least w symbols
FormatZeroPad(n, w) ==
    LET s == Str(n)
    IN  IF Len(s) >= w THEN s ELSE [k \in 1..(w - Len(s)) |-> "0"] \o s

RECURSIVE Replace(_, _, _)
\* str.replace(old, new): non-overlapping occurrences, scanned left to right
Replace(s, old, new) ==
    IF Len(old) = 0 \/ Len(s) < Len(old) THEN s
    ELSE IF SubSeq(s, 1, Len(old)) = old
         THEN new \o Replace(SubSeq(s, Len(old) + 1, Len(s)), old, new)
         ELSE <<Head(s)>> \o Replace(Tail(s), old, new)

\* old occurs in s as a contiguous run
Occurs(old, s) ==
    \E k \in 1..(Len(s) - Len(old) + 1) : SubSeq(s, k, k + Len(old) - 1) = old

\* normalize_path: every backslash becomes a forward slash
normalize_path(path) == [k \in 1..Len(path) |-> IF path[k] = "\\" THEN "/" ELSE path[k]]

\* os.path.splitext: (root, ext), ext being the last symbol when it starts with "."
Extensions == {".sim", ".java", ".txt", ".sim~"}
splitext(name) ==
    IF Len(name) > 0 /\ name[Len(name)] \in Extensions
    THEN <<SubSeq(name, 1, Len(name) - 1), <<name[Len(name)]>> >>
    ELSE <<name, <<>> >>

\* os.path.basename: what follows the last separator
basename(path) ==
    LET seps == {k \in 1..Len(path) : path[k] \in {"/", "\\"}}
    IN  IF seps = {} THEN path
        ELSE SubSeq(path, (CHOOSE k \in seps : \A m \in seps : m <= k) + 1, Len(path))

(* ------------------------- reserved literals -------------------------- *)
CaseNameText == <<"Case", "Name">>
TemplateMacroText == <<"template_", "Macro">>
SavePathText == <<"Save", "Path">>
CASE_NUMBER == <<"CASE_NUMBER">>

\* required = {"Macro.java": ..., "Case.sim": ...}, in the dict's order
RequiredDisplayNames == << <<"Macro", ".java">>, <<"Case", ".sim">> >>

\* the output directory handed to every phase (CreatOutputFolder's abspath)
OutputFolderPath == <<"D:", "\\", "out">>

(* ------------------------------ inputs -------------------------------- *)
PlaceholderNames == << <<"T">>, <<"P">>, <<"V">> >>

\* the table built from the column lengths lens: column k holds 100k+1, 100k+2, ...
TableOf(lens) ==
    [k \in 1..Len(lens) |->
        [name |-> PlaceholderNames[k],
         values |-> [r \in 1..lens[k] |-> 100 * k + r]]]

MacroTemplates ==
    { <<"run", "template_", "Macro", ";", "Case", "Name", "=", "T", ";", "Save", "Path">>,
      <<"T", "P", "T">> }

CaseTemplates == { <<"inlet", "=", "T">> }

\* custom_templates: display name -> content, zero or one auxiliary template
CustomTemplateSets ==
    { <<>>,
      << [display |-> <<"Report", ".txt">>,
          content |-> <<"template_", "Report", ":", "Case", "Name", "T">>] >> }

\* the ReplaceRules section of config.ini: absent, overriding CaseName, or a case-number rule
ConfigRuleSets ==
    { <<>>,
      << [old |-> <<"Case", "Name">>, new |-> <<"X">>] >>,
      << [old |-> <<"T">>, new |-> <<"CASE_NUMBER">>] >> }

VARIABLES
    MacroParamToReplaceValue,  \* the parameter table, in the dict's order
    macro_template,            \* content of template_Macro.java
    case_template,             \* content of template_Case.sim
    custom_templates,          \* auxiliary templates, in the dict's order
    replace_rules,             \* final_replace_rules, in the dict's order
    BatchState,                \* the three flags of config.ini
    max_threads,               \* MaxThreads of config.ini
    pc,                        \* position of MainProgram
    row_index,                 \* row of the running instantiation loop
    tmpl_index,                \* template of the running loop, 0 at the top of a row
    case_number,               \* case identifier of the running row
    required_case_numbers,     \* identifiers process_required_templates computed so far
    custom_case_numbers,       \* identifiers process_custom_templates computed so far
    sim_files,                 \* .sim paths returned by process_required_templates
    java_files,                \* .java paths returned by process_required_templates
    generated_files,           \* paths returned by process_custom_templates
    files,                     \* output directory: path -> content
    log,                       \* the phase banners MainProgram has logged
    log_dir_created,           \* whether execution_logs has been created
    futures,                   \* the submitted jobs, in submission order
    collected,                 \* futures the as_completed loop has consumed
    success_count,             \* success_count of process_sim_command
    summaries,                 \* the "success/total" lines logged
    backups,                   \* the "<case>.sim~" files present in the output directory
    removed                    \* the os.remove calls that succeeded: job and path

inputVars == <<MacroParamToReplaceValue, macro_template, case_template, custom_templates,
               replace_rules, BatchState, max_threads>>

genVars == <<row_index, tmpl_index, case_number, required_case_numbers,
             custom_case_numbers, sim_files, java_files, generated_files, files>>

simVars == <<log_dir_created, futures, collected, success_count, summaries, backups, removed>>

vars == <<inputVars, pc, log, genVars, simVars>>

(* ---------------------- get_custom_templates -------------------------- *)
RECURSIVE DictUpdate(_, _)
\* dict.update: an existing key keeps its place and takes the new value, a new key is appended
DictUpdate(rules, extra) ==
    IF extra = <<>> THEN rules
    ELSE LET e == Head(extra)
             hit == {k \in 1..Len(rules) : rules[k].old = e.old}
             upd == IF hit = {} THEN Append(rules, e)
                    ELSE [k \in 1..Len(rules) |-> IF k \in hit THEN e ELSE rules[k]]
         IN  DictUpdate(upd, Tail(extra))

\* the rules get_custom_templates returns: none without auxiliary templates, else the
\* default CaseName -> CASE_NUMBER updated with the configured rules
FinalReplaceRules(templates, config_rules) ==
    IF templates = <<>> THEN <<>>
    ELSE DictUpdate(<< [old |-> CaseNameText, new |-> CASE_NUMBER] >>, config_rules)

(* -------------------- template instantiation -------------------------- *)
\* num_rows = min(len(v) for v in MacroParamToReplaceValue.values())
NumRows(table) == Min({Len(table[k].values) : k \in 1..Len(table)})

num_rows == NumRows(MacroParamToReplaceValue)

\* case_number = f"Case{row_index + 1:0{num_digits}d}", num_digits = len(str(num_rows))
CaseNumberRequired(row, rows) == <<"Case">> \o FormatZeroPad(row + 1, Len(Str(rows)))

CaseNumberCustom(row, rows) == <<"Case">> \o FormatZeroPad(row + 1, Len(Str(rows)))

\* output_path = normalize_path(f"{output_folder_path}/{output_filename}")
OutputPath(output_filename) == normalize_path(OutputFolderPath \o <<"/">> \o output_filename)

\* the .sim file named after the template's display name, not after the case
SimFilenameOfDisplay(case) == <<"Case", ".sim">>

\* output_filename of the .sim template
SimFilename(case) == case \o <<".sim">>

\* output_filename of a .java or auxiliary template: {root}_{case_number}{ext}
SuffixedFilename(display_name, case) ==
    splitext(display_name)[1] \o <<"_">> \o case \o splitext(display_name)[2]

RECURSIVE ReplaceParams(_, _, _, _)
\* for column_name, column_value in table.items(): replace column_name by str(value of the row)
ReplaceParams(content, table, row, k) ==
    IF k > Len(table) THEN content
    ELSE ReplaceParams(Replace(content, table[k].name, Str(table[k].values[row + 1])),
                       table, row, k + 1)

\* the content written to the .java file of a case
MacroContent(template, output_filename, case, table, row) ==
    LET c1 == Replace(template, CaseNameText, case)
        c2 == Replace(c1, TemplateMacroText, splitext(output_filename)[1])
        c3 == Replace(c2, SavePathText, normalize_path(OutputFolderPath \o <<"/">> \o SimFilename(case)))
    IN  ReplaceParams(c3, table, row, 1)

RECURSIVE ApplyRules(_, _, _, _)
\* for old, new in replace_rules.items(): CASE_NUMBER stands for the case identifier
ApplyRules(content, rules, case, k) ==
    IF k > Len(rules) THEN content
    ELSE LET new == IF rules[k].new = CASE_NUMBER THEN case ELSE rules[k].new
         IN  ApplyRules(Replace(content, rules[k].old, new), rules, case, k + 1)

\* the content written to an auxiliary file of a case
CustomContent(template, display_name, output_filename, case, rules) ==
    LET c1 == Replace(template, CaseNameText, case)
        c2 == ApplyRules(c1, rules, case, 1)
    IN  Replace(c2, <<"template_">> \o splitext(display_name)[1], splitext(output_filename)[1])

\* the output directory after writing content to path
WriteFile(fs, path, content) == (path :> content) @@ fs

(* ------------------- process_required_templates ----------------------- *)
\* endswith(ext) of a display name
EndsWith(display_name, ext) == Len(display_name) > 0 /\ display_name[Len(display_name)] = ext

\* the loops' advance after the template at tmpl_index, count templates per row
AdvanceLoop(count) ==
    IF tmpl_index >= count
    THEN row_index' = row_index + 1 /\ tmpl_index' = 0
    ELSE row_index' = row_index /\ tmpl_index' = tmpl_index + 1

\* top of the row loop: the case identifier of the row
RequiredRow ==
    /\ pc = "required" /\ tmpl_index = 0 /\ row_index < num_rows
    /\ case_number' = CaseNumberRequired(row_index, num_rows)
    /\ required_case_numbers' = Append(required_case_numbers, case_number')
    /\ tmpl_index' = 1
    /\ UNCHANGED <<inputVars, pc, log, row_index, custom_case_numbers, sim_files,
                   java_files, generated_files, files, simVars>>

\* one template of the row: the .sim template is copied, the .java template is copied
\* and rewritten in place
RequiredTemplate ==
    /\ pc = "required" /\ tmpl_index \in 1..Len(RequiredDisplayNames)
    /\ LET display_name == RequiredDisplayNames[tmpl_index]
       IN  IF EndsWith(display_name, ".sim")
           THEN LET output_path == OutputPath(SimFilename(case_number))
                IN  /\ files' = WriteFile(files, output_path, case_template)
                    /\ sim_files' = Append(sim_files, output_path)
                    /\ UNCHANGED java_files
           ELSE IF EndsWith(display_name, ".java")
           THEN LET output_filename == SuffixedFilename(display_name, case_number)
                    output_path == OutputPath(output_filename)
                IN  /\ files' = WriteFile(files, output_path,
                                    MacroContent(macro_template, output_filename, case_number,
                                                 MacroParamToReplaceValue, row_index))
                    /\ java_files' = Append(java_files, output_path)
                    /\ UNCHANGED sim_files
           ELSE UNCHANGED <<files, sim_files, java_files>>
    /\ AdvanceLoop(Len(RequiredDisplayNames))
    /\ UNCHANGED <<inputVars, pc, log, case_number, required_case_numbers,
                   custom_case_numbers, generated_files, simVars>>

\* shutil.copy raises: nothing handles it in process_required_templates or MainProgram
RequiredCopyRaises ==
    /\ pc = "required" /\ tmpl_index \in 1..Len(RequiredDisplayNames)
    /\ pc' = "raised"
    /\ UNCHANGED <<inputVars, log, genVars, simVars>>

\* open, read or write of the copied .java file raises: the raw copy stays, its path is listed
RequiredWriteRaises ==
    /\ pc = "required" /\ tmpl_index \in 1..Len(RequiredDisplayNames)
    /\ EndsWith(RequiredDisplayNames[tmpl_index], ".java")
    /\ LET output_path == OutputPath(SuffixedFilename(RequiredDisplayNames[tmpl_index], case_number))
       IN  /\ files' = WriteFile(files, output_path, macro_template)
           /\ java_files' = Append(java_files, output_path)
    /\ pc' = "raised"
    /\ UNCHANGED <<inputVars, log, row_index, tmpl_index, case_number, required_case_numbers,
                   custom_case_numbers, sim_files, generated_files, simVars>>

\* return sim_files, java_files
RequiredReturn ==
    /\ pc = "required" /\ tmpl_index = 0 /\ row_index >= num_rows
    /\ pc' = "step7"
    /\ UNCHANGED <<inputVars, log, genVars, simVars>>

(* -------------------- process_custom_templates ------------------------ *)
CustomRow ==
    /\ pc = "custom" /\ tmpl_index = 0 /\ row_index < num_rows
    /\ case_number' = CaseNumberCustom(row_index, num_rows)
    /\ custom_case_numbers' = Append(custom_case_numbers, case_number')
    /\ IF custom_templates = <<>>
       THEN row_index' = row_index + 1 /\ tmpl_index' = 0
       ELSE row_index' = row_index /\ tmpl_index' = 1
    /\ UNCHANGED <<inputVars, pc, log, required_case_numbers, sim_files,
                   java_files, generated_files, files, simVars>>

CustomTemplate ==
    /\ pc = "custom" /\ tmpl_index \in 1..Len(custom_templates)
    /\ LET t == custom_templates[tmpl_index]
           output_filename == SuffixedFilename(t.display, case_number)
           output_path == OutputPath(output_filename)
       IN  /\ files' = WriteFile(files, output_path,
                           CustomContent(t.content, t.display, output_filename,
                                         case_number, replace_rules))
           /\ generated_files' = Append(generated_files, output_path)
    /\ AdvanceLoop(Len(custom_templates))
    /\ UNCHANGED <<inputVars, pc, log, case_number, required_case_numbers,
                   custom_case_numbers, sim_files, java_files, simVars>>

\* shutil.copy raises in process_custom_templates: nothing handles it either
CustomCopyRaises ==
    /\ pc = "custom" /\ tmpl_index \in 1..Len(custom_templates)
    /\ pc' = "raised"
    /\ UNCHANGED <<inputVars, log, genVars, simVars>>

\* return generated_files, and MainProgram logs the end of the run
CustomReturn ==
    /\ pc = "custom" /\ tmpl_index = 0 /\ row_index >= num_rows
    /\ pc' = "done"
    /\ UNCHANGED <<inputVars, log, genVars, simVars>>

(* ------------------------ process_sim_command ------------------------- *)
\* case_number = os.path.splitext(os.path.basename(sim_file))[0]
CaseOfSimFile(sim_file) == splitext(basename(sim_file))[1]

\* backup_file = os.path.join(output_folder_path, f"{case_number}.sim~")
BackupFile(case) == OutputFolderPath \o <<"\\">> \o case \o <<".sim~">>

Jobs == 1..Len(futures)

Running == {j \in Jobs : futures[j].state = "running"}

Settle(j, code, result) ==
    futures' = [futures EXCEPT ![j].state = "done", ![j].exit_code = code, ![j].result = result]

\* the length check without its return: execution goes on over zip's pairs
SimMismatchFallsThrough ==
    /\ pc = "sim_verify" /\ Len(sim_files) # Len(java_files)
    /\ log_dir_created' = TRUE
    /\ pc' = "sim_submit"
    /\ UNCHANGED <<inputVars, log, genVars, futures, collected, success_count, summaries,
                   backups, removed>>

\* len(sim_files) != len(java_files): logged, and the call returns
SimMismatch ==
    /\ pc = "sim_verify" /\ Len(sim_files) # Len(java_files)
    /\ pc' = "step8"
    /\ log' = Append(log, "sim_finished")
    /\ UNCHANGED <<inputVars, genVars, simVars>>

\* os.makedirs(log_dir, exist_ok=True), then the pool is opened
SimPrepare ==
    /\ pc = "sim_verify" /\ Len(sim_files) = Len(java_files)
    /\ log_dir_created' = TRUE
    /\ pc' = "sim_submit"
    /\ UNCHANGED <<inputVars, log, genVars, futures, collected, success_count, summaries,
                   backups, removed>>

\* executor.submit(execute_case, sim, java) for the next pair of zip(sim_files, java_files)
Submit ==
    /\ pc = "sim_submit" /\ Len(futures) < Min({Len(sim_files), Len(java_files)})
    /\ futures' = Append(futures, [sim |-> sim_files[Len(futures) + 1],
                                   java |-> java_files[Len(futures) + 1],
                                   state |-> "queued", exit_code |-> <<>>, result |-> "none"])
    /\ UNCHANGED <<inputVars, pc, log, genVars, log_dir_created, collected, success_count,
                   summaries, backups, removed>>

\* every pair is submitted: success_count = 0 and the as_completed loop starts
SubmitDone ==
    /\ pc = "sim_submit" /\ Len(futures) >= Min({Len(sim_files), Len(java_files)})
    /\ success_count' = 0
    /\ pc' = "sim_collect"
    /\ UNCHANGED <<inputVars, log, genVars, log_dir_created, futures, collected, summaries,
                   backups, removed>>

\* a pool that starts a thread for every queued job
StartJobUnbounded(j) ==
    /\ futures[j].state = "queued"
    /\ \A i \in Jobs : i < j => futures[i].state # "queued"
    /\ futures' = [futures EXCEPT ![j].state = "running"]
    /\ UNCHANGED <<inputVars, pc, log, genVars, log_dir_created, collected, success_count,
                   summaries, backups, removed>>

\* a pool thread takes the oldest queued job; the pool has at most max_workers threads
StartJob(j) ==
    /\ futures[j].state = "queued"
    /\ \A i \in Jobs : i < j => futures[i].state # "queued"
    /\ Cardinality(Running) < max_threads
    /\ futures' = [futures EXCEPT ![j].state = "running"]
    /\ UNCHANGED <<inputVars, pc, log, genVars, log_dir_created, collected, success_count,
                   summaries, backups, removed>>

\* the simulation tool saves over its case file and leaves "<case>.sim~" behind
StarccmWritesBackup(j) ==
    /\ futures[j].state = "running"
    /\ BackupFile(CaseOfSimFile(futures[j].sim)) \notin backups
    /\ backups' = backups \cup {BackupFile(CaseOfSimFile(futures[j].sim))}
    /\ UNCHANGED <<inputVars, pc, log, genVars, log_dir_created, futures, collected,
                   success_count, summaries, removed>>

\* os.system returns 0: the backup file is removed when it exists, and the job returns True
JobSucceeds(j) ==
    /\ futures[j].state = "running"
    /\ LET backup_file == BackupFile(CaseOfSimFile(futures[j].sim))
       IN  IF backup_file \in backups
           THEN /\ backups' = backups \ {backup_file}
                /\ removed' = removed \cup {[job |-> j, path |-> backup_file]}
           ELSE UNCHANGED <<backups, removed>>
    /\ Settle(j, <<0>>, "true")
    /\ UNCHANGED <<inputVars, pc, log, genVars, log_dir_created, collected, success_count,
                   summaries>>

\* os.system returns 0 and os.remove of the existing backup file raises: the handler of
\* execute_case logs it and the job returns False
JobRemoveRaises(j) ==
    /\ futures[j].state = "running"
    /\ BackupFile(CaseOfSimFile(futures[j].sim)) \in backups
    /\ Settle(j, <<0>>, "false")
    /\ UNCHANGED <<inputVars, pc, log, genVars, log_dir_created, collected, success_count,
                   summaries, backups, removed>>

\* os.system returns a nonzero exit code: the job returns False
JobFails(j) ==
    /\ futures[j].state = "running"
    /\ Settle(j, <<1>>, "false")
    /\ UNCHANGED <<inputVars, pc, log, genVars, log_dir_created, collected, success_count,
                   summaries, backups, removed>>

\* an exception before os.system returns: the job returns False without an exit code
JobRaises(j) ==
    /\ futures[j].state = "running"
    /\ Settle(j, <<>>, "false")
    /\ UNCHANGED <<inputVars, pc, log, genVars, log_dir_created, collected, success_count,
                   summaries, backups, removed>>

\* as_completed yields a finished future: success_count += 1 when its result is True
Collect(j) ==
    /\ pc = "sim_collect"
    /\ futures[j].state = "done" /\ j \notin collected
    /\ collected' = collected \cup {j}
    /\ success_count' = IF futures[j].result = "true" THEN success_count + 1 ELSE success_count
    /\ UNCHANGED <<inputVars, pc, log, genVars, log_dir_created, futures, summaries,
                   backups, removed>>

\* the summary logged without waiting for the futures
SimSummaryEarly ==
    /\ pc = "sim_collect"
    /\ summaries' = Append(summaries, [success |-> success_count, total |-> Len(sim_files)])
    /\ pc' = "step8"
    /\ log' = Append(log, "sim_finished")
    /\ UNCHANGED <<inputVars, genVars, log_dir_created, futures, collected, success_count,
                   backups, removed>>

\* the loop and the pool are done: the summary is logged and the call returns
SimSummary ==
    /\ pc = "sim_collect" /\ collected = Jobs
    /\ summaries' = Append(summaries, [success |-> success_count, total |-> Len(sim_files)])
    /\ pc' = "step8"
    /\ log' = Append(log, "sim_finished")
    /\ UNCHANGED <<inputVars, genVars, log_dir_created, futures, collected, success_count,
                   backups, removed>>

(* ---------------------------- MainProgram ----------------------------- *)
\* process_required_templates is enabled
MainRequired ==
    /\ pc = "step6" /\ BatchState.process_required_templates
    /\ pc' = "required"
    /\ log' = Append(log, "required")
    /\ row_index' = 0 /\ tmpl_index' = 0
    /\ sim_files' = <<>> /\ java_files' = <<>>
    /\ UNCHANGED <<inputVars, case_number, required_case_numbers, custom_case_numbers,
                   generated_files, files, simVars>>

MainSkipRequired ==
    /\ pc = "step6" /\ ~BatchState.process_required_templates
    /\ pc' = "step8"
    /\ log' = Append(log, "skip_required")
    /\ UNCHANGED <<inputVars, genVars, simVars>>

\* process_sim_command is enabled, inside the branch of the required templates
MainSim ==
    /\ pc = "step7" /\ BatchState.process_sim_command
    /\ pc' = "sim_verify"
    /\ log' = Append(log, "sim")
    /\ UNCHANGED <<inputVars, genVars, simVars>>

MainSkipSim ==
    /\ pc = "step7" /\ ~BatchState.process_sim_command
    /\ pc' = "step8"
    /\ log' = Append(log, "skip_sim")
    /\ UNCHANGED <<inputVars, genVars, simVars>>

\* process_custom_templates is enabled
MainCustom ==
    /\ pc = "step8" /\ BatchState.process_custom_templates
    /\ pc' = "custom"
    /\ log' = Append(log, "custom")
    /\ row_index' = 0 /\ tmpl_index' = 0
    /\ generated_files' = <<>>
    /\ UNCHANGED <<inputVars, case_number, required_case_numbers, custom_case_numbers,
                   sim_files, java_files, files, simVars>>

MainSkipCustom ==
    /\ pc = "step8" /\ ~BatchState.process_custom_templates
    /\ pc' = "done"
    /\ log' = Append(log, "skip_custom")
    /\ UNCHANGED <<inputVars, genVars, simVars>>

(* --------------------------- specifications --------------------------- *)
\* all sequences of 1..cols column lengths, each 0..len
ColumnLengths(cols, len) == UNION {[1..c -> 0..len] : c \in 1..cols}

Flags == [process_required_templates : BOOLEAN, process_sim_command : BOOLEAN,
          process_custom_templates : BOOLEAN]

\* the state MainProgram reaches step 6 in, for the given inputs
Start(table, macro, case, customs, config_rules, flags, threads) ==
    /\ MacroParamToReplaceValue = table
    /\ macro_template = macro
    /\ case_template = case
    /\ custom_templates = customs
    /\ replace_rules = FinalReplaceRules(customs, config_rules)
    /\ BatchState = flags
    /\ max_threads = threads
    /\ pc = "step6"
    /\ log = <<>>
    /\ row_index = 0 /\ tmpl_index = 0 /\ case_number = <<>>
    /\ required_case_numbers = <<>> /\ custom_case_numbers = <<>>
    /\ sim_files = <<>> /\ java_files = <<>> /\ generated_files = <<>>
    /\ files = <<>>
    /\ log_dir_created = FALSE
    /\ futures = <<>> /\ collected = {} /\ success_count = 0
    /\ summaries = <<>> /\ backups = {} /\ removed = {}

\* the whole program: every flag combination, short tables, every pool size
Init ==
    \E lens \in ColumnLengths(2, MaxLen), customs \in CustomTemplateSets,
       flags \in Flags, threads \in 1..MaxThreads :
        Start(TableOf(lens), <<"run", "template_", "Macro", ";", "Case", "Name", "=", "T", ";", "Save", "Path">>,
              <<"inlet", "=", "T">>, customs, <<>>, flags, threads)

\* the instantiation phases alone: long tables of up to three columns, every template,
\* auxiliary set and configured rule set; execution disabled
InitGen ==
    \E lens \in ColumnLengths(3, MaxRows), macro \in MacroTemplates, case \in CaseTemplates,
       customs \in CustomTemplateSets, config_rules \in ConfigRuleSets :
        Start(TableOf(lens), macro, case, customs, config_rules,
              [process_required_templates |-> TRUE, process_sim_command |-> FALSE,
               process_custom_templates |-> TRUE], 1)

\* the paths process_required_templates lists for the first n rows of a table of rows rows
SimFilesOf(n, rows) ==
    [k \in 1..n |-> OutputPath(SimFilename(CaseNumberRequired(k - 1, rows)))]

JavaFilesOf(n, rows) ==
    [k \in 1..n |-> OutputPath(SuffixedFilename(RequiredDisplayNames[1],
                                                CaseNumberRequired(k - 1, rows)))]

\* MainProgram at step 7, process_required_templates having returned a .sim paths and
\* b .java paths over a table of a rows: the state it returns in when a = b, and with
\* the .java list cut or extended otherwise
StartSim(a, b, customs, custom_flag, threads) ==
    LET table == TableOf(<<a>>)
        ids == [k \in 1..a |-> CaseNumberRequired(k - 1, a)]
        sims == SimFilesOf(a, a)
        javas == JavaFilesOf(b, a)
        paths == {sims[k] : k \in 1..a} \cup {javas[k] : k \in 1..b}
    IN  /\ MacroParamToReplaceValue = table
        /\ macro_template = <<"Case", "Name", "=", "T">>
        /\ case_template = <<"inlet", "=", "T">>
        /\ custom_templates = customs
        /\ replace_rules = FinalReplaceRules(customs, <<>>)
        /\ BatchState = [process_required_templates |-> TRUE, process_sim_command |-> TRUE,
                         process_custom_templates |-> custom_flag]
        /\ max_threads = threads
        /\ pc = "step7"
        /\ log = <<"required">>
        /\ row_index = a /\ tmpl_index = 0
        /\ case_number = IF a = 0 THEN <<>> ELSE ids[a]
        /\ required_case_numbers = ids /\ custom_case_numbers = <<>>
        /\ sim_files = sims /\ java_files = javas
        /\ generated_files = <<>>
        /\ files = [p \in paths |->
                       IF \E k \in 1..a : sims[k] = p THEN case_template
                       ELSE LET k == CHOOSE i \in 1..b : javas[i] = p
                                id == CaseNumberRequired(k - 1, a)
                            IN  IF k <= a
                                THEN MacroContent(macro_template,
                                                  SuffixedFilename(RequiredDisplayNames[1], id),
                                                  id, table, k - 1)
                                ELSE macro_template]
        /\ log_dir_created = FALSE
        /\ futures = <<>> /\ collected = {} /\ success_count = 0
        /\ summaries = <<>> /\ backups = {} /\ removed = {}

\* the executor called with any two lists, of equal length or not; one auxiliary template
InitSim ==
    \E a \in 0..MaxJobs, b \in 0..MaxJobs, custom_flag \in BOOLEAN, threads \in 1..MaxThreads :
        StartSim(a, b, CHOOSE customs \in CustomTemplateSets : customs # <<>>,
                 custom_flag, threads)

\* the lists process_required_templates returns have equal lengths, so MainProgram never
\* takes SimMismatch: it is an action of the executor's specification only
Next ==
    \/ MainRequired \/ MainSkipRequired \/ MainSim \/ MainSkipSim \/ MainCustom \/ MainSkipCustom
    \/ RequiredRow \/ RequiredTemplate \/ RequiredCopyRaises \/ RequiredWriteRaises
    \/ RequiredReturn
    \/ CustomRow \/ CustomTemplate \/ CustomCopyRaises \/ CustomReturn
    \/ SimPrepare \/ Submit \/ SubmitDone
    \/ \E j \in Jobs : StartJob(j)
    \/ \E j \in Jobs : StarccmWritesBackup(j)
    \/ \E j \in Jobs : JobSucceeds(j)
    \/ \E j \in Jobs : JobRemoveRaises(j)
    \/ \E j \in Jobs : JobFails(j)
    \/ \E j \in Jobs : JobRaises(j)
    \/ \E j \in Jobs : Collect(j)
    \/ SimSummary

NextGen ==
    \/ MainRequired \/ MainSkipSim \/ MainCustom
    \/ RequiredRow \/ RequiredTemplate \/ RequiredCopyRaises \/ RequiredWriteRaises
    \/ RequiredReturn
    \/ CustomRow \/ CustomTemplate \/ CustomCopyRaises \/ CustomReturn

NextSim ==
    \/ MainSim \/ MainCustom \/ MainSkipCustom
    \/ CustomRow \/ CustomTemplate \/ CustomCopyRaises \/ CustomReturn
    \/ SimMismatch \/ SimPrepare \/ Submit \/ SubmitDone
    \/ \E j \in Jobs : StartJob(j)
    \/ \E j \in Jobs : StarccmWritesBackup(j)
    \/ \E j \in Jobs : JobSucceeds(j)
    \/ \E j \in Jobs : JobRemoveRaises(j)
    \/ \E j \in Jobs : JobFails(j)
    \/ \E j \in Jobs : JobRaises(j)
    \/ \E j \in Jobs : Collect(j)
    \/ SimSummary

\* a job that is running settles: its external command terminates
JobSettles(j) == JobSucceeds(j) \/ JobRemoveRaises(j) \/ JobFails(j) \/ JobRaises(j)

\* the main thread's steps inside process_sim_command
SimMain == MainSim \/ SimMismatch \/ SimPrepare \/ Submit \/ SubmitDone
               \/ (\E j \in Jobs : Collect(j)) \/ SimSummary

\* the whole program
Spec == Init /\ [][Next]_vars

\* the instantiation phases
SpecGen == InitGen /\ [][NextGen]_vars

\* the executor
SpecSim == InitSim /\ [][NextSim]_vars

\* the executor called by MainProgram, lists of equal length, auxiliary processing off
InitDrain ==
    \E n \in 0..MaxDrainJobs, threads \in 1..MaxThreads : StartSim(n, n, <<>>, FALSE, threads)

NextDrain ==
    \/ MainSim \/ MainSkipCustom
    \/ SimPrepare \/ Submit \/ SubmitDone
    \/ \E j \in Jobs : StartJob(j)
    \/ \E j \in Jobs : StarccmWritesBackup(j)
    \/ \E j \in Jobs : JobSucceeds(j)
    \/ \E j \in Jobs : JobRemoveRaises(j)
    \/ \E j \in Jobs : JobFails(j)
    \/ \E j \in Jobs : JobRaises(j)
    \/ \E j \in Jobs : Collect(j)
    \/ SimSummary

\* the executor with its scheduling: the main thread runs, an idle pool thread takes the
\* next queued job, and every external command terminates
FairSpecDrain ==
    /\ InitDrain /\ [][NextDrain]_vars
    /\ WF_vars(SimMain)
    /\ \A j \in 1..MaxDrainJobs : WF_vars(j \in Jobs /\ StartJob(j))
    /\ \A j \in 1..MaxDrainJobs : WF_vars(j \in Jobs /\ JobSettles(j))

(* ------------------------------ claims -------------------------------- *)
InLog(banner) == \E k \in 1..Len(log) : log[k] = banner

\* the number a run of digit symbols denotes
DigitValue(c) == CHOOSE d \in 0..9 : DigitChars[d + 1] = c

RECURSIVE DecimalValue(_)
DecimalValue(ds) ==
    IF ds = <<>> THEN 0
    ELSE 10 * DecimalValue(SubSeq(ds, 1, Len(ds) - 1)) + DigitValue(ds[Len(ds)])

\* the number of decimal digits of n >= 1
DigitCount(n) == CHOOSE w \in 1..(n + 1) : 10 ^ (w - 1) <= n /\ n < 10 ^ w

\* id is "Case" followed by i+1 written in exactly digits(n) digit symbols
IsCaseIdentifier(id, i, n) ==
    /\ Len(id) = 1 + DigitCount(n)
    /\ id[1] = "Case"
    /\ \A k \in 2..Len(id) : \E d \in 1..10 : DigitChars[d] = id[k]
    /\ DecimalValue(Tail(id)) = i + 1

Distinct(seq) == \A a, b \in 1..Len(seq) : a # b => seq[a] # seq[b]

\* C1: every case identifier process_required_templates and process_custom_templates
\* compute for row i of a table of N >= 1 rows is "Case" followed by i+1 zero-padded to
\* the number of digits of N; the identifiers of a run are pairwise distinct, and the two
\* functions compute the same identifier for the same row.
C1_CaseIdentifiers ==
    /\ \A k \in 1..Len(required_case_numbers) :
           IsCaseIdentifier(required_case_numbers[k], k - 1, num_rows)
    /\ \A k \in 1..Len(custom_case_numbers) :
           IsCaseIdentifier(custom_case_numbers[k], k - 1, num_rows)
    /\ Distinct(required_case_numbers) /\ Distinct(custom_case_numbers)
    /\ \A k \in 1..Len(required_case_numbers) :
           k <= Len(custom_case_numbers) => required_case_numbers[k] = custom_case_numbers[k]

\* both functions have gone through a table of ten or more rows, where padding applies
C1_Witness ==
    /\ num_rows >= 10
    /\ Len(required_case_numbers) = num_rows
    /\ Len(custom_case_numbers) = num_rows

RECURSIVE CountOccurrences(_, _)
\* str.count(old): non-overlapping occurrences of old in s
CountOccurrences(old, s) ==
    IF Len(s) < Len(old) THEN 0
    ELSE IF SubSeq(s, 1, Len(old)) = old
         THEN 1 + CountOccurrences(old, SubSeq(s, Len(old) + 1, Len(s)))
         ELSE CountOccurrences(old, Tail(s))

\* content, generated from template for row, has no placeholder left and holds the row's
\* value wherever the template had the placeholder
Substituted(content, template, row) ==
    \A k \in 1..Len(MacroParamToReplaceValue) :
        LET p == MacroParamToReplaceValue[k]
        IN  /\ ~Occurs(p.name, content)
            /\ CountOccurrences(Str(p.values[row + 1]), content)
                   >= CountOccurrences(p.name, template)

\* C2: in every file generated for case i (case file, macro file, auxiliary file) no
\* declared placeholder is left, and each occurrence the template had is replaced by
\* str(v), v the placeholder's value of row i.
C2_PlaceholderCompleteness ==
    pc # "raised" =>
        /\ \A k \in 1..Len(sim_files) :
               Substituted(files[sim_files[k]], case_template, k - 1)
        /\ \A k \in 1..Len(java_files) :
               Substituted(files[java_files[k]], macro_template, k - 1)
        /\ \A k \in 1..Len(generated_files) :
               Substituted(files[generated_files[k]],
                           custom_templates[((k - 1) % Len(custom_templates)) + 1].content,
                           (k - 1) \div Len(custom_templates))

\* C3: the summary's success count is the number of jobs whose external command
\* returned exit code 0, whatever the completion order and the pool size; with exactly
\* one failed job it is K-1, and every job has run to completion.
C3_SuccessCount ==
    \A k \in 1..Len(summaries) :
        /\ summaries[k].success = Cardinality({j \in Jobs : futures[j].exit_code = <<0>>})
        /\ \A j \in Jobs : futures[j].state = "done"
        /\ Cardinality({j \in Jobs : futures[j].result = "false"}) = 1
               => summaries[k].success = Len(futures) - 1

\* C4: the jobs that have started their external command and not finished it are never
\* more than max_threads.
C4_BoundedConcurrency == Cardinality(Running) <= max_threads

\* the pool is full while a submitted job waits
C4_Witness ==
    /\ Cardinality(Running) = max_threads
    /\ \E j \in Jobs : futures[j].state = "queued"

\* process_required_templates has returned to MainProgram
RequiredReturned ==
    /\ InLog("required")
    /\ \/ pc \in {"step7", "sim_verify", "sim_submit", "sim_collect", "step8", "custom", "done"}
       \/ pc = "raised" /\ InLog("custom")

\* C5: after process_required_templates completes without error over a table whose
\* shortest column has N values, it has returned N case files and N macro files, in
\* ascending case order, the k-th of each carrying the identifier of case k.
C5_Pairing ==
    RequiredReturned =>
        /\ Len(sim_files) = num_rows
        /\ Len(java_files) = num_rows
        /\ \A k \in 1..Len(sim_files) :
               /\ IsCaseIdentifier(CaseOfSimFile(sim_files[k]), k - 1, num_rows)
               /\ splitext(basename(java_files[k]))[1]
                      = <<"Macro", "_">> \o CaseOfSimFile(sim_files[k])

\* the table of column lengths 5, 3, 5 has been instantiated: three cases
C5_Witness ==
    /\ RequiredReturned
    /\ Len(MacroParamToReplaceValue) = 3
    /\ Len(MacroParamToReplaceValue[1].values) = 5
    /\ Len(MacroParamToReplaceValue[2].values) = 3
    /\ Len(MacroParamToReplaceValue[3].values) = 5
    /\ Len(sim_files) = 3

\* C6: the executor is invoked only with process_required_templates and
\* process_sim_command both enabled and after the required templates have been
\* instantiated; with process_required_templates disabled no job is ever launched;
\* auxiliary instantiation runs exactly when process_custom_templates is enabled,
\* whatever the other flags and the outcome of the earlier steps, and after them.
C6_FlagGating ==
    /\ InLog("sim") => /\ BatchState.process_required_templates
                       /\ BatchState.process_sim_command
                       /\ RequiredReturned
    /\ ~BatchState.process_required_templates => futures = <<>>
    /\ InLog("custom") => /\ BatchState.process_custom_templates
                          /\ InLog("required") => RequiredReturned
                          /\ InLog("sim") => InLog("sim_finished")
    /\ pc \in {"done", "raised"} => (InLog("custom") <=> BatchState.process_custom_templates)

\* C7: called with lists of different lengths, process_sim_command submits no job, starts
\* no command, creates no log directory and returns without raising, and MainProgram
\* then processes the auxiliary templates exactly when process_custom_templates is enabled.
C7_MismatchAbortsExecutionOnly ==
    Len(sim_files) # Len(java_files) =>
        /\ futures = <<>> /\ ~log_dir_created /\ summaries = <<>>
        /\ pc \notin {"sim_submit", "sim_collect"}
        /\ pc = "raised" => InLog("custom")
        /\ pc \in {"done", "raised"}
               => (InLog("custom") <=> BatchState.process_custom_templates)

\* a mismatched call has returned and the auxiliary files have been generated
C7_Witness ==
    /\ Len(sim_files) # Len(java_files)
    /\ InLog("sim_finished")
    /\ pc = "done"
    /\ generated_files # <<>>

\* C8: a copy or write failure for one case in process_required_templates is absorbed:
\* it does not leave the case loop as an exception and does not abort the run, and the
\* remaining case indices are still processed.
C8_FailureAbsorbed ==
    /\ pc = "raised" => InLog("custom")
    /\ pc \in {"done", "raised"} /\ InLog("required")
           => Len(required_case_numbers) = num_rows

\* C9: a job returns success exactly when its external command's exit code is 0, and a
\* backup file is removed only by a job whose exit code was 0, and only that job's own
\* "<case>.sim~".
C9_OutcomeByExitCode ==
    /\ \A j \in Jobs :
           futures[j].state = "done"
               => (futures[j].result = "true" <=> futures[j].exit_code = <<0>>)
    /\ \A r \in removed :
           /\ futures[r.job].exit_code = <<0>>
           /\ r.path = BackupFile(CaseOfSimFile(futures[r.job].sim))

\* C10: once the pool is open over K pairs, every submitted job is eventually started
\* and, every external command terminating, the summary is eventually logged, once, with
\* total K, only after all K jobs have settled, and process_sim_command never raises.
C10_RunToDrain ==
    /\ \A j \in 1..MaxDrainJobs : (j \in Jobs) ~> (j \in Jobs /\ futures[j].state # "queued")
    /\ (pc = "sim_submit") ~> (Len(summaries) = 1)
    /\ [](Len(summaries) <= 1)
    /\ [](\A k \in 1..Len(summaries) :
              /\ summaries[k].total = Len(sim_files)
              /\ Len(futures) = Len(sim_files)
              /\ \A j \in Jobs : futures[j].state = "done")
    /\ [](pc = "raised" => InLog("custom"))

\* the summary of a run of two or more jobs that all failed
C10_Witness ==
    /\ Len(summaries) = 1
    /\ Len(futures) >= 2
    /\ \A j \in Jobs : futures[j].result = "false"
    /\ summaries[1].success = 0

\* C11: the rules applied to auxiliary templates always hold a rule for "CaseName", by
\* default standing for the case identifier, and a configured rule for "CaseName"
\* overrides it: with "CaseName" configured as a literal text X, the generated auxiliary
\* file has X wherever the template had "CaseName".
C11_CaseNameOverride ==
    /\ custom_templates # <<>>
           => \E r \in 1..Len(replace_rules) : replace_rules[r].old = CaseNameText
    /\ \A k \in 1..Len(generated_files) :
           LET template == custom_templates[((k - 1) % Len(custom_templates)) + 1].content
               case == custom_case_numbers[((k - 1) \div Len(custom_templates)) + 1]
               content == files[generated_files[k]]
           IN  \A r \in 1..Len(replace_rules) :
                   replace_rules[r].old = CaseNameText
                       => LET text == IF replace_rules[r].new = CASE_NUMBER THEN case
                                      ELSE replace_rules[r].new
                          IN  CountOccurrences(text, content)
                                  >= CountOccurrences(CaseNameText, template)
====
